---------------------------- MODULE Spec2Model ----------------------------
(***************************************************************************)
(* AI Insight API (src/main.py, src/models.py): the request validation,    *)
(* image sniffing, upstream call and response normalisation pipeline of    *)
(* the routes /analyze, /analyze-image, /analyze-file and /analyze-batch.  *)
(*                                                                         *)
(* Conventions of the model                                                *)
(*   - a Python str is a sequence of one-character strings;                *)
(*   - an Optional value is None (the empty tuple) or Some(v) == <<v>>;    *)
(*   - a temperature is an integer number of tenths (3 is 0.3, 10 is 1.0); *)
(*   - an uploaded buffer is [head, len]: its first min(len, 12) bytes and *)
(*     its length, so that a 5 MiB buffer is a value TLC can hold;         *)
(*   - a latency is an integer number of hundredths of a second.           *)
(***************************************************************************)
EXTENDS Integers, Sequences, FiniteSets, TLC

VARIABLES
    pc,         \* pc[r]: where request slot r is: idle, pending, calling, resume, done
    req,        \* req[r]: the request as the client sent it
    call,       \* call[r]: the upstream completion calls made for r: [args, out]
    log,        \* log[r]: the pipeline steps the handler of r has executed, in order
    resp,       \* resp[r]: the HTTP response of r, once done
    loopOwner,  \* the request whose coroutine holds the event loop thread, or 0
    probe,      \* the model object under construction (pure-function specification)
    batch       \* the /analyze-batch request in flight

vars == <<pc, req, call, log, resp, loopOwner, probe, batch>>

(***************************************************************************)
(* Bounds of the model.                                                    *)
(***************************************************************************)
NumReqs == 2        \* request slots of the concurrent specification
MaxTokens == 1      \* largest total_tokens the upstream reports
MaxElapsed == 1     \* largest elapsed time of an upstream call (x 0.01 s)
MaxItems == 11      \* largest number of items a client puts in a batch

(***************************************************************************)
(* Values.                                                                 *)
(***************************************************************************)
None == << >>
Some(v) == <<v>>
IsNone(o) == Len(o) = 0
Get(o) == o[1]
OrDefault(o, d) == IF IsNone(o) THEN d ELSE Get(o)

\* Python's str.isspace() characters that the model's strings use.
Whitespace == {" ", "\t", "\n"}

RECURSIVE LStrip(_)
LStrip(s) ==
    IF s = << >> THEN s
    ELSE IF Head(s) \in Whitespace THEN LStrip(Tail(s)) ELSE s

RECURSIVE RStrip(_)
RStrip(s) ==
    IF s = << >> THEN s
    ELSE IF s[Len(s)] \in Whitespace THEN RStrip(SubSeq(s, 1, Len(s) - 1)) ELSE s

\* str.strip()
Strip(s) == RStrip(LStrip(s))

UpperChars == <<"A","B","C","D","E","F","G","H","I","J","K","L","M",
                "N","O","P","Q","R","S","T","U","V","W","X","Y","Z">>
LowerChars == <<"a","b","c","d","e","f","g","h","i","j","k","l","m",
                "n","o","p","q","r","s","t","u","v","w","x","y","z">>

LowerChar(c) ==
    IF \E i \in 1..Len(UpperChars) : UpperChars[i] = c
    THEN LowerChars[CHOOSE i \in 1..Len(UpperChars) : UpperChars[i] = c]
    ELSE c

\* str.lower()
Lower(s) == [i \in 1..Len(s) |-> LowerChar(s[i])]

\* bytes.startswith(sig), on the leading bytes of the buffer
StartsWith(data, sig) ==
    /\ Len(data.head) >= Len(sig)
    /\ SubSeq(data.head, 1, Len(sig)) = sig

\* data[lo:hi], a slice within the leading bytes (Python cuts it at the end)
Slice(data, lo, hi) ==
    SubSeq(data.head, lo + 1, IF hi < Len(data.head) THEN hi ELSE Len(data.head))

(***************************************************************************)
(* base64.b64encode(content).decode("utf-8") and the data URL               *)
(* (src/main.py:198-200).  The text is [head, len]: the encoding of the     *)
(* leading bytes and the length of the whole text.  Twelve leading bytes    *)
(* are four full groups, so the head of the text is exact.                  *)
(***************************************************************************)
B64Alphabet ==
    <<"A","B","C","D","E","F","G","H","I","J","K","L","M","N","O","P",
      "Q","R","S","T","U","V","W","X","Y","Z","a","b","c","d","e","f",
      "g","h","i","j","k","l","m","n","o","p","q","r","s","t","u","v",
      "w","x","y","z","0","1","2","3","4","5","6","7","8","9","+","/">>

B64Char(n) == B64Alphabet[n + 1]

RECURSIVE B64Text(_)
B64Text(bytes) ==
    IF Len(bytes) = 0 THEN << >>
    ELSE IF Len(bytes) = 1 THEN
        LET n == bytes[1] * 65536
        IN  <<B64Char(n \div 262144), B64Char((n \div 4096) % 64), "=", "=">>
    ELSE IF Len(bytes) = 2 THEN
        LET n == bytes[1] * 65536 + bytes[2] * 256
        IN  <<B64Char(n \div 262144), B64Char((n \div 4096) % 64),
              B64Char((n \div 64) % 64), "=">>
    ELSE
        LET n == bytes[1] * 65536 + bytes[2] * 256 + bytes[3]
        IN  <<B64Char(n \div 262144), B64Char((n \div 4096) % 64),
              B64Char((n \div 64) % 64), B64Char(n % 64)>>
            \o B64Text(SubSeq(bytes, 4, Len(bytes)))

B64Encode(data) ==
    [head |-> B64Text(data.head), len |-> 4 * ((data.len + 2) \div 3)]

\* f"data:image/{ext};base64,{b64}"
DataUrl(ext, b64) ==
    [scheme |-> "data", type |-> "image", subtype |-> ext,
     encoding |-> "base64", data |-> b64]

(***************************************************************************)
(* Image sniffing (src/main.py:169-196).                                    *)
(***************************************************************************)
MAX_BYTES == 5 * 1024 * 1024

SigJPEG == <<255, 216, 255>>
SigPNG  == <<137, 80, 78, 71, 13, 10, 26, 10>>
SigRIFF == <<82, 73, 70, 70>>
SigWEBP == <<87, 69, 66, 80>>

\* detect_image_type(data): Some(format), or None
detect_image_type(data) ==
    IF StartsWith(data, SigJPEG) THEN Some("jpeg")
    ELSE IF StartsWith(data, SigPNG) THEN Some("png")
    ELSE IF StartsWith(data, SigRIFF) /\ Slice(data, 8, 12) = SigWEBP THEN Some("webp")
    ELSE None

CtJpeg == <<"i","m","a","g","e","/","j","p","e","g">>
CtPng  == <<"i","m","a","g","e","/","p","n","g">>
CtWebp == <<"i","m","a","g","e","/","w","e","b","p">>

\* ok_types.get(ct): Some(format), or None
ok_types_get(ct) ==
    IF ct = CtJpeg THEN Some("jpeg")
    ELSE IF ct = CtPng THEN Some("png")
    ELSE IF ct = CtWebp THEN Some("webp")
    ELSE None

\* Mutant of DeclaredType: the declared type is compared as sent
DeclaredTypeCaseSensitive(file) ==
    IF IsNone(file.content_type) THEN << >> ELSE Get(file.content_type)

\* ct = (file.content_type or "").lower()
DeclaredType(file) ==
    Lower(IF IsNone(file.content_type) THEN << >> ELSE Get(file.content_type))

\* Mutant of ResolveExt: the declared type is trusted before the signature
ResolveExtDeclaredFirst(file) ==
    LET declared == ok_types_get(Lower(OrDefault(file.content_type, << >>)))
    IN  IF ~IsNone(declared) THEN declared ELSE detect_image_type(file.content)

\* ext: the detected format, else the declared one (src/main.py:190-193)
ResolveExt(file) ==
    LET detected == detect_image_type(file.content)
    IN  IF ~IsNone(detected) THEN detected ELSE ok_types_get(DeclaredType(file))

(***************************************************************************)
(* Request models.  A validation returns [ok |-> TRUE, value |-> payload]   *)
(* or [ok |-> FALSE, errors |-> the set of <<field, error type>>].          *)
(***************************************************************************)
Valid(v) == [ok |-> TRUE, value |-> v]
Invalid(errs) == [ok |-> FALSE, errors |-> errs]
Result(errs, v) == IF errs = {} THEN Valid(v) ELSE Invalid(errs)

\* Field(..., ge=0, le=1), in tenths
TempInRange(t) == 0 <= t /\ t <= 10

\* class PromptRequest (src/main.py:77-80)
PromptRequest(body) ==
    LET errs ==
            (IF IsNone(body.prompt) THEN {<<"prompt", "missing">>} ELSE {})
            \cup (IF ~IsNone(body.model)
                     /\ Get(body.model) \notin {"gpt-4o-mini", "gpt-4-turbo"}
                  THEN {<<"model", "literal_error">>} ELSE {})
            \cup (IF ~IsNone(body.temperature) /\ ~TempInRange(Get(body.temperature))
                  THEN {<<"temperature", "out_of_range">>} ELSE {})
    IN  Result(errs, [prompt |-> OrDefault(body.prompt, << >>),
                      model |-> OrDefault(body.model, "gpt-4o-mini"),
                      temperature |-> OrDefault(body.temperature, 3)])

\* AnyHttpUrl: a URL with scheme http or https and a host
IsHttpUrl(u) == u.scheme \in {"http", "https"} /\ u.host # ""

DefaultImagePrompt == <<"D","e","s","c","r","i","b","e"," ","t","h","e"," ","i","m","a","g","e"," ","a","n","d"," ","e","x","t","r","a","c","t"," ","e","n","t","i","t","i","e","s",".">>

\* ImageUrlPayload._trim_prompt (src/models.py:29-35): Some(trimmed), or None
\* when the validator raises
TrimPrompt(v) == IF Strip(v) = << >> THEN None ELSE Some(Strip(v))

\* class ImageUrlPayload (src/models.py:7-35); a default is not validated
ImageUrlPayload(body) ==
    LET promptErr ==
            IF IsNone(body.prompt) THEN {}
            ELSE IF Len(Get(body.prompt)) < 1 THEN {<<"prompt", "string_too_short">>}
            ELSE IF IsNone(TrimPrompt(Get(body.prompt))) THEN {<<"prompt", "value_error">>}
            ELSE {}
        errs ==
            (IF IsNone(body.image_url) THEN {<<"image_url", "missing">>}
             ELSE IF ~IsHttpUrl(Get(body.image_url)) THEN {<<"image_url", "url_scheme">>}
             ELSE {})
            \cup promptErr
            \cup (IF ~IsNone(body.model) /\ Get(body.model) \notin {"gpt-4o", "gpt-4o-mini"}
                  THEN {<<"model", "literal_error">>} ELSE {})
            \cup (IF ~IsNone(body.temperature) /\ ~TempInRange(Get(body.temperature))
                  THEN {<<"temperature", "out_of_range">>} ELSE {})
    IN  Result(errs, [image_url |-> OrDefault(body.image_url, [scheme |-> "", host |-> ""]),
                      prompt |-> IF IsNone(body.prompt) \/ promptErr # {}
                                 THEN DefaultImagePrompt
                                 ELSE Get(TrimPrompt(Get(body.prompt))),
                      model |-> OrDefault(body.model, "gpt-4o"),
                      temperature |-> OrDefault(body.temperature, 2)])

DefaultFilePrompt == <<"D","e","s","c","r","i","b","e"," ","t","h","i","s"," ","i","m","a","g","e">>

\* The parameters of analyze_file (src/main.py:158-163): file is required,
\* prompt, model and temperature are query parameters with defaults
AnalyzeFileParams(body) ==
    LET errs ==
            (IF IsNone(body.file) THEN {<<"file", "missing">>} ELSE {})
            \cup (IF ~IsNone(body.model) /\ Get(body.model) \notin {"gpt-4o", "gpt-4o-mini"}
                  THEN {<<"model", "literal_error">>} ELSE {})
    IN  Result(errs, [file |-> OrDefault(body.file,
                                         [content |-> [head |-> << >>, len |-> 0],
                                          content_type |-> None]),
                      prompt |-> OrDefault(body.prompt, DefaultFilePrompt),
                      model |-> OrDefault(body.model, "gpt-4o-mini"),
                      temperature |-> OrDefault(body.temperature, 2)])

(***************************************************************************)
(* Response model.  An exception is [type, message]; str(e) is its message, *)
(* a sequence of lines.                                                     *)
(***************************************************************************)
Exception(t, lines) == [type |-> t, message |-> lines]
Str(e) == e.message

Returned(v) == [raised |-> FALSE, value |-> v]
Raised(e) == [raised |-> TRUE, exc |-> e]

\* class DetectedEntity (src/models.py:61-69): TRUE when the entity is valid
DetectedEntity(e) ==
    /\ Len(e.label) >= 1
    /\ IsNone(e.confidence) \/ TempInRange(Get(e.confidence))

\* ImageInsightResponse._ensure_non_empty_content (src/models.py:91-101):
\* TRUE when the validator lets the object through
EnsureNonEmptyContent(summary, text_in_image) ==
    LET has_summary == summary # << >> /\ Strip(summary) # << >>
        has_text == IF ~IsNone(text_in_image) /\ Get(text_in_image) # << >>
                    THEN Strip(Get(text_in_image)) # << >>
                    ELSE FALSE
    IN  has_summary \/ has_text

\* Mutant of ImageInsightResponse: the object is built without validation, a
\* missing summary becoming the empty string
ImageInsightResponseUnvalidated(summary, entities, text_in_image, model_used, tokens_used) ==
    Returned([summary |-> IF IsNone(summary) THEN << >> ELSE Get(summary),
              entities |-> entities, text_in_image |-> text_in_image,
              model_used |-> model_used, tokens_used |-> tokens_used])

\* class ImageInsightResponse (src/models.py:72-101): the field constraints,
\* then the model validator.  summary is what the caller passes: Some(str), or
\* None for Python's None.
ImageInsightResponse(summary, entities, text_in_image, model_used, tokens_used) ==
    LET fieldErrs ==
            (IF IsNone(summary) THEN <<"summary: string_type">>
             ELSE IF Len(Get(summary)) < 1 THEN <<"summary: string_too_short">>
             ELSE << >>)
            \o (IF \E i \in 1..Len(entities) : ~DetectedEntity(entities[i])
                THEN <<"entities: invalid entity">> ELSE << >>)
            \o (IF ~IsNone(tokens_used) /\ Get(tokens_used) < 0
                THEN <<"tokens_used: greater_than_equal">> ELSE << >>)
    IN  IF fieldErrs # << >> THEN Raised(Exception("ValidationError", fieldErrs))
        ELSE IF ~EnsureNonEmptyContent(Get(summary), text_in_image)
        THEN Raised(Exception("ValidationError",
                 <<"Response must contain a non-empty summary or text_in_image.">>))
        ELSE Returned([summary |-> Get(summary), entities |-> entities,
                       text_in_image |-> text_in_image, model_used |-> model_used,
                       tokens_used |-> tokens_used])

(***************************************************************************)
(* The upstream completion call and the handlers.  An outcome of            *)
(* client.chat.completions.create is Raised(exception) or                   *)
(* Returned([choices, usage]): choices is the sequence of the choices'      *)
(* message contents (each Some(str) or None), usage is Some(total_tokens)   *)
(* or None.                                                                 *)
(***************************************************************************)
Http(status, body) == [status |-> status, body |-> body]

\* raise HTTPException(status_code=..., detail=...)
HTTPException(status, detail) == Http(status, [detail |-> detail])

\* validation_exception_handler (src/main.py:69-74)
validation_exception_handler(errors) ==
    Http(422, [error |-> "ValidationError", details |-> errors])

IndexError == Exception("IndexError", <<"list index out of range">>)

SystemMessage == [role |-> "system", content |-> "You are an image analysis assistant."]

\* The arguments of the call of analyze (src/main.py:99-103)
AnalyzeCall(p) ==
    [model |-> p.model,
     messages |-> <<[role |-> "user", content |-> p.prompt]>>,
     temperature |-> p.temperature]

\* The arguments of the call of analyze_image and of analyze_file
\* (src/main.py:121-134, 204-217)
ImageCall(model, prompt, url, temperature) ==
    [model |-> model,
     messages |-> <<SystemMessage,
                    [role |-> "user",
                     content |-> <<[type |-> "text", text |-> prompt],
                                   [type |-> "image_url", image_url |-> url]>>]>>,
     temperature |-> temperature]

\* f"{latency}s" with latency = round(time.time() - start, 2)
LatencyStr(elapsed) == [hundredths |-> elapsed, suffix |-> "s"]

\* Mutant of AnalyzeTry: the last choice is returned, and the default model
AnalyzeTryLastChoice(p, out, elapsed) ==
    IF out.raised THEN HTTPException(500, Str(out.exc))
    ELSE IF Len(out.value.choices) = 0 THEN HTTPException(500, Str(IndexError))
    ELSE Http(200, [response |-> out.value.choices[Len(out.value.choices)],
                    latency |-> LatencyStr(elapsed),
                    model |-> "gpt-4o-mini",
                    tokens_used |-> out.value.usage])

\* analyze, from the return of the call (src/main.py:104-114)
AnalyzeTry(p, out, elapsed) ==
    IF out.raised THEN HTTPException(500, Str(out.exc))
    ELSE IF Len(out.value.choices) = 0 THEN HTTPException(500, Str(IndexError))
    ELSE Http(200, [response |-> out.value.choices[1],
                    latency |-> LatencyStr(elapsed),
                    model |-> p.model,
                    tokens_used |-> out.value.usage])

\* analyze_image and analyze_file, from the return of the call
\* (src/main.py:136-154, 219-232)
ImageTry(model, out) ==
    IF out.raised THEN HTTPException(500, Str(out.exc))
    ELSE IF Len(out.value.choices) = 0 THEN HTTPException(500, Str(IndexError))
    ELSE LET built == ImageInsightResponse(out.value.choices[1], << >>, None,
                                           model, out.value.usage)
         IN  IF built.raised THEN HTTPException(500, Str(built.exc))
             ELSE Http(200, built.value)

\* Mutant of TooLarge: the limit itself is refused
TooLargeOffByOne(content) == content.len >= MAX_BYTES

\* len(content) > MAX_BYTES (src/main.py:170)
TooLarge(content) == content.len > MAX_BYTES

\* analyze_file, up to the call (src/main.py:164-200): the response when the
\* handler raises, else the arguments of the call; steps are the steps run
AnalyzeFilePre(p) ==
    IF TooLarge(p.file.content)
    THEN [steps |-> <<"read", "size">>, raised |-> TRUE,
          resp |-> HTTPException(413, "Image too large (max 5MB).")]
    ELSE IF IsNone(ResolveExt(p.file))
    THEN [steps |-> <<"read", "size", "sniff">>, raised |-> TRUE,
          resp |-> HTTPException(415, "Unsupported image type. Use jpg, png, or webp.")]
    ELSE [steps |-> <<"read", "size", "sniff", "b64", "call">>, raised |-> FALSE,
          args |-> ImageCall(p.model, p.prompt,
                             DataUrl(Get(ResolveExt(p.file)), B64Encode(p.file.content)),
                             p.temperature)]

\* The validation FastAPI runs before the handler of a route
Validate(rq) ==
    IF rq.route = "/analyze" THEN PromptRequest(rq.body)
    ELSE IF rq.route = "/analyze-image" THEN ImageUrlPayload(rq.body)
    ELSE AnalyzeFileParams(rq.body)

\* A route declared "async def" runs on the event loop; a route declared "def"
\* runs in a worker thread (src/main.py:96, 118, 158)
IsAsyncRoute(route) == route \in {"/analyze-image", "/analyze-file"}

(***************************************************************************)
(* The server.  The event loop is one thread: it reads and validates a      *)
(* request and runs the coroutine of an "async def" route up to its next    *)
(* await.  client.chat.completions.create is a blocking call: made in a     *)
(* coroutine it holds the loop until it returns; made in a "def" route it   *)
(* holds a worker thread, and the loop picks the result up afterwards.      *)
(***************************************************************************)
\* A call that has not returned yet
Pending(args) == [args |-> args, out |-> None]

NoRequest == [route |-> "", body |-> None]
NoResponse == Http(0, None)

\* The client sends request rq on slot r.
Arrive(r, rq) ==
    /\ pc[r] = "idle"
    /\ pc' = [pc EXCEPT ![r] = "pending"]
    /\ req' = [req EXCEPT ![r] = rq]
    /\ UNCHANGED <<call, log, resp, loopOwner, probe, batch>>

\* The loop takes the request: validation, then the handler up to the call.
Dispatch(r) ==
    /\ pc[r] = "pending"
    /\ loopOwner = 0
    /\ LET v == Validate(req[r])
           p == v.value
       IN  IF ~v.ok THEN
               /\ pc' = [pc EXCEPT ![r] = "done"]
               /\ resp' = [resp EXCEPT ![r] = validation_exception_handler(v.errors)]
               /\ log' = [log EXCEPT ![r] = <<"validate">>]
               /\ UNCHANGED <<call, loopOwner>>
           ELSE IF req[r].route = "/analyze" THEN
               /\ pc' = [pc EXCEPT ![r] = "calling"]
               /\ call' = [call EXCEPT ![r] = Append(@, Pending(AnalyzeCall(p)))]
               /\ log' = [log EXCEPT ![r] = <<"validate", "call">>]
               /\ UNCHANGED <<resp, loopOwner>>
           ELSE IF req[r].route = "/analyze-image" THEN
               /\ pc' = [pc EXCEPT ![r] = "calling"]
               /\ call' = [call EXCEPT ![r] =
                              Append(@, Pending(ImageCall(p.model, p.prompt,
                                    [url |-> p.image_url], p.temperature)))]
               /\ log' = [log EXCEPT ![r] = <<"validate", "call">>]
               /\ loopOwner' = r
               /\ UNCHANGED resp
           ELSE LET pre == AnalyzeFilePre(p)
                IN  /\ log' = [log EXCEPT ![r] = <<"validate">> \o pre.steps]
                    /\ IF pre.raised THEN
                           /\ pc' = [pc EXCEPT ![r] = "done"]
                           /\ resp' = [resp EXCEPT ![r] = pre.resp]
                           /\ UNCHANGED <<call, loopOwner>>
                       ELSE
                           /\ pc' = [pc EXCEPT ![r] = "calling"]
                           /\ call' = [call EXCEPT ![r] = Append(@, Pending(pre.args))]
                           /\ loopOwner' = r
                           /\ UNCHANGED resp
    /\ UNCHANGED <<req, probe, batch>>

\* The upstream call of r ends with outcome out after elapsed; the handler
\* runs to its end.
Complete(r, out, elapsed) ==
    /\ pc[r] = "calling"
    /\ LET p == Validate(req[r]).value
       IN  resp' = [resp EXCEPT ![r] =
                       IF req[r].route = "/analyze" THEN AnalyzeTry(p, out, elapsed)
                       ELSE ImageTry(p.model, out)]
    /\ call' = [call EXCEPT ![r][Len(call[r])].out = Some(out)]
    /\ log' = [log EXCEPT ![r] = Append(@, "normalize")]
    /\ IF IsAsyncRoute(req[r].route)
       THEN /\ pc' = [pc EXCEPT ![r] = "done"]
            /\ loopOwner' = 0
       ELSE /\ pc' = [pc EXCEPT ![r] = "resume"]
            /\ UNCHANGED loopOwner
    /\ UNCHANGED <<req, probe, batch>>

\* The loop picks up the result of a worker thread and sends the response.
Respond(r) ==
    /\ pc[r] = "resume"
    /\ loopOwner = 0
    /\ pc' = [pc EXCEPT ![r] = "done"]
    /\ UNCHANGED <<req, call, log, resp, loopOwner, probe, batch>>

(***************************************************************************)
(* The requests and upstream outcomes the specifications draw from.         *)
(***************************************************************************)
Hi == <<"h","i">>
HiThere == <<"h","i"," ","t","h","e","r","e">>

PromptInputs == {None, Some(<< >>), Some(<<" ">>), Some(Hi), Some(<<" ","h","i","\n">>)}
ModelInputs == {None, Some("gpt-4o-mini"), Some("gpt-4-turbo"), Some("gpt-4o"),
                Some("gpt-3.5-turbo")}
TempInputs == {None, Some(0 - 1), Some(0), Some(10), Some(11)}
UrlInputs == {None, Some([scheme |-> "https", host |-> "example.com"]),
              Some([scheme |-> "ftp", host |-> "example.com"])}

HeadJpeg == <<255, 216, 255, 224, 0, 16, 74, 70, 73, 70, 0, 1>>
HeadPng  == <<137, 80, 78, 71, 13, 10, 26, 10, 0, 0, 0, 13>>
HeadWebp == <<82, 73, 70, 70, 36, 0, 0, 0, 87, 69, 66, 80>>
HeadWave == <<82, 73, 70, 70, 36, 0, 0, 0, 87, 65, 86, 69>>
HeadText == <<104, 101, 108, 108, 111, 32, 119, 111, 114, 108, 100, 33>>

\* Buffers: whole short ones, and long ones of several lengths
Contents ==
    {[head |-> h, len |-> Len(h)] :
        h \in {<< >>, <<255, 216>>, SigJPEG, SigRIFF, SigPNG}}
    \cup {[head |-> h, len |-> n] :
            h \in {HeadJpeg, HeadPng, HeadWebp, HeadWave, HeadText},
            n \in {12, MAX_BYTES, MAX_BYTES + 1, 6 * 1024 * 1024}}

ContentTypeInputs ==
    {None, Some(CtPng), Some(<<"I","M","A","G","E","/","J","P","E","G">>), Some(<<"I","m","a","g","e","/","W","e","b","P">>), Some(<<"t","e","x","t","/","p","l","a","i","n">>),
     Some(<<"i","m","a","g","e","/","p","n","g",";","q","=","1">>)}

FileInputs ==
    {None} \cup {Some([content |-> c, content_type |-> t]) :
                    c \in Contents, t \in ContentTypeInputs}

Requests ==
    {[route |-> "/analyze", body |-> [prompt |-> p, model |-> m, temperature |-> t]] :
        p \in PromptInputs, m \in ModelInputs, t \in TempInputs}
    \cup {[route |-> "/analyze-image",
           body |-> [image_url |-> u, prompt |-> p, model |-> m, temperature |-> t]] :
            u \in UrlInputs, p \in PromptInputs, m \in ModelInputs, t \in TempInputs}
    \cup {[route |-> "/analyze-file",
           body |-> [file |-> f, prompt |-> p, model |-> m, temperature |-> t]] :
            f \in FileInputs,
            p \in {None, Some(<<" ">>), Some(<<" ","h","i","\n">>)},
            m \in {None, Some("gpt-4o"), Some("gpt-4-turbo")},
            t \in {None, Some(0), Some(11)}}

ContentInputs == {None, Some(<< >>), Some(<<" ">>), Some(HiThere)}
UsageInputs == {None} \cup {Some(n) : n \in 0..MaxTokens}

Outcomes ==
    {Raised(Exception("APITimeoutError", <<"Request timed out.">>)),
     Raised(Exception("RateLimitError", <<"Rate limit reached.">>))}
    \cup {Returned([choices |-> c, usage |-> u]) :
            c \in {<< >>} \cup {<<m>> : m \in ContentInputs}
                  \cup {<<m, Some(Hi)>> : m \in ContentInputs},
            u \in UsageInputs}

Elapsed == 0..MaxElapsed

Init ==
    /\ pc = [r \in 1..NumReqs |-> "idle"]
    /\ req = [r \in 1..NumReqs |-> NoRequest]
    /\ call = [r \in 1..NumReqs |-> << >>]
    /\ log = [r \in 1..NumReqs |-> << >>]
    /\ resp = [r \in 1..NumReqs |-> NoResponse]
    /\ loopOwner = 0
    /\ probe = None
    /\ batch = None

\* One request at a time, over every request and outcome: the handlers share
\* no state, so a request's response depends on nothing but the request.
Next ==
    \/ \E rq \in Requests : Arrive(1, rq)
    \/ Dispatch(1)
    \/ \E out \in Outcomes, e \in Elapsed : Complete(1, out, e)
    \/ Respond(1)

Spec == Init /\ [][Next]_vars

(***************************************************************************)
(* Concurrent requests: NumReqs slots, one request of each kind.            *)
(***************************************************************************)
SmallPng == [content |-> [head |-> HeadPng, len |-> 12], content_type |-> Some(CtPng)]

ConcRequests ==
    {[route |-> "/analyze",
      body |-> [prompt |-> Some(Hi), model |-> None, temperature |-> None]],
     [route |-> "/analyze",
      body |-> [prompt |-> None, model |-> None, temperature |-> None]],
     [route |-> "/analyze-image",
      body |-> [image_url |-> Some([scheme |-> "https", host |-> "example.com"]),
                prompt |-> Some(Hi), model |-> None, temperature |-> None]],
     [route |-> "/analyze-file",
      body |-> [file |-> Some(SmallPng), prompt |-> Some(Hi), model |-> None,
                temperature |-> None]]}

ConcOutcomes ==
    {Raised(Exception("APITimeoutError", <<"Request timed out.">>)),
     Returned([choices |-> <<Some(HiThere)>>, usage |-> Some(0)])}

NextConc ==
    \E r \in 1..NumReqs :
        \/ \E rq \in ConcRequests : Arrive(r, rq)
        \/ Dispatch(r)
        \/ \E out \in ConcOutcomes : Complete(r, out, 0)
        \/ Respond(r)

SpecConc == Init /\ [][NextConc]_vars

(***************************************************************************)
(* Construction of an ImageInsightResponse from any arguments.              *)
(***************************************************************************)
SummaryInputs == {None, Some(<< >>), Some(<<" ">>), Some(<<"o","k">>),
                  Some(<<" ","o","k"," ">>)}
TextInputs == {None, Some(<< >>), Some(<<"\t">>), Some(<<"T","E","X","T">>)}
EntityInputs == {<< >>, <<[label |-> <<"c","a","t">>, confidence |-> Some(9)]>>}

InitModels ==
    /\ pc = [r \in 1..NumReqs |-> "idle"]
    /\ req = [r \in 1..NumReqs |-> NoRequest]
    /\ call = [r \in 1..NumReqs |-> << >>]
    /\ log = [r \in 1..NumReqs |-> << >>]
    /\ resp = [r \in 1..NumReqs |-> NoResponse]
    /\ loopOwner = 0
    /\ batch = None
    /\ probe \in {Some(a) :
                    a \in [summary : SummaryInputs, entities : EntityInputs,
                           text_in_image : TextInputs,
                           model_used : {"gpt-4o", "gpt-4o-mini"},
                           tokens_used : UsageInputs, result : {None}]}

\* ImageInsightResponse(summary=..., entities=..., ...)
Construct ==
    /\ ~IsNone(probe)
    /\ IsNone(Get(probe).result)
    /\ LET a == Get(probe)
       IN  probe' = Some([a EXCEPT !.result =
                             Some(ImageInsightResponse(a.summary, a.entities,
                                                       a.text_in_image, a.model_used,
                                                       a.tokens_used))])
    /\ UNCHANGED <<pc, req, call, log, resp, loopOwner, batch>>

NextModels == Construct

SpecModels == InitModels /\ [][NextModels]_vars

(***************************************************************************)
(* /analyze-batch.  The request model is src/models.py:112-134.  The        *)
(* handler is not in src/: it is modelled from the specification's minimum  *)
(* contract (sequential processing, one positional record per item, an      *)
(* item's failure becomes its own record).                                  *)
(***************************************************************************)
\* class AnalyzeItem (src/models.py:112-122): TRUE when the item is valid
AnalyzeItem(item) ==
    /\ Len(item.prompt) >= 1
    /\ IsNone(item.image_url) \/ IsHttpUrl(Get(item.image_url))
    /\ IsNone(item.model) \/ Get(item.model) \in {"gpt-4o", "gpt-4o-mini", "gpt-4-turbo"}
    /\ IsNone(item.temperature) \/ TempInRange(Get(item.temperature))

\* Mutant of ItemsLengthOk: one item too many is let through
ItemsLengthOkOffByOne(n) == 1 <= n /\ n <= 11

\* items: List[AnalyzeItem] = Field(..., min_length=1, max_length=10)
ItemsLengthOk(n) == 1 <= n /\ n <= 10

\* class AnalyzeBatchRequest (src/models.py:125-134)
AnalyzeBatchRequest(body) ==
    LET errs ==
            (IF ~ItemsLengthOk(Len(body.items))
             THEN {<<"items", IF Len(body.items) < 1 THEN "too_short" ELSE "too_long">>}
             ELSE {})
            \cup {<<"items", i, "invalid">> :
                    i \in {j \in 1..Len(body.items) : ~AnalyzeItem(body.items[j])}}
    IN  Result(errs, body)

\* The record of one item: its normalized result, or its error
BatchItemResult(item, out) ==
    IF out.raised THEN [status |-> "error", error |-> Str(out.exc)]
    ELSE IF Len(out.value.choices) = 0 THEN [status |-> "error", error |-> Str(IndexError)]
    ELSE [status |-> "success", response |-> out.value.choices[1],
          model |-> OrDefault(item.model, "gpt-4o-mini"),
          tokens_used |-> out.value.usage]

\* The prompt of item i: i characters, so that no two items are alike
RECURSIVE Xs(_)
Xs(i) == IF i = 0 THEN << >> ELSE Append(Xs(i - 1), "x")

\* A batch of n items, the item at position bad (if any) with an empty prompt
BatchBody(n, bad) ==
    [items |-> [i \in 1..n |->
                    [prompt |-> IF i = bad THEN << >> ELSE Xs(i), image_url |-> None,
                     model |-> None, temperature |-> None]]]

\* The client posts a batch.
BatchArrive(n, bad) ==
    /\ IsNone(batch)
    /\ batch' = Some([body |-> BatchBody(n, bad), stage |-> "pending", calls |-> << >>,
                      results |-> << >>, resp |-> NoResponse])
    /\ UNCHANGED <<pc, req, call, log, resp, loopOwner, probe>>

\* Validation of the batch, before the handler.
BatchValidate ==
    /\ ~IsNone(batch)
    /\ Get(batch).stage = "pending"
    /\ LET v == AnalyzeBatchRequest(Get(batch).body)
       IN  batch' = IF v.ok THEN Some([Get(batch) EXCEPT !.stage = "running"])
                    ELSE Some([Get(batch) EXCEPT
                                  !.stage = "done",
                                  !.resp = validation_exception_handler(v.errors)])
    /\ UNCHANGED <<pc, req, call, log, resp, loopOwner, probe>>

\* The handler processes the next item: one upstream call, one record.
BatchItem(out) ==
    /\ ~IsNone(batch)
    /\ Get(batch).stage = "running"
    /\ Len(Get(batch).results) < Len(Get(batch).body.items)
    /\ LET b == Get(batch)
           item == b.body.items[Len(b.results) + 1]
       IN  batch' = Some([b EXCEPT
                             !.calls = Append(@, [prompt |-> item.prompt, out |-> out]),
                             !.results = Append(@, BatchItemResult(item, out))])
    /\ UNCHANGED <<pc, req, call, log, resp, loopOwner, probe>>

\* Every item is processed: the handler returns the records.
BatchRespond ==
    /\ ~IsNone(batch)
    /\ Get(batch).stage = "running"
    /\ Len(Get(batch).results) = Len(Get(batch).body.items)
    /\ batch' = Some([Get(batch) EXCEPT
                         !.stage = "done",
                         !.resp = Http(200, [results |-> Get(batch).results])])
    /\ UNCHANGED <<pc, req, call, log, resp, loopOwner, probe>>

NextBatch ==
    \/ \E n \in 0..MaxItems : \E bad \in 0..n : BatchArrive(n, bad)
    \/ BatchValidate
    \/ \E out \in ConcOutcomes : BatchItem(out)
    \/ BatchRespond

SpecBatch == Init /\ [][NextBatch]_vars

(***************************************************************************)
(* The claims.                                                              *)
(***************************************************************************)
Slots == 1..NumReqs

\* r has been taken by the loop: it is past validation
Taken(r) == pc[r] \in {"calling", "resume", "done"}

\* r carries its response
Answered(r) == pc[r] \in {"resume", "done"}

Blank(s) == \A i \in 1..Len(s) : s[i] \in Whitespace

Trimmed(s) == s = << >> \/ (s[1] \notin Whitespace /\ s[Len(s)] \notin Whitespace)

\* The prompt in the arguments of an upstream call
SentPrompt(route, args) ==
    IF route = "/analyze" THEN args.messages[1].content
    ELSE args.messages[2].content[1].text

\* The image reference in the arguments of an upstream call of an image route
SentImage(args) == args.messages[2].content[2].image_url

\* C1: on /analyze, /analyze-image and /analyze-file, a request whose
\* temperature is outside [0,1] gets no upstream call and ends in HTTP 422.
C1_TemperatureRejected ==
    \A r \in Slots :
        (/\ pc[r] # "idle"
         /\ ~IsNone(req[r].body.temperature)
         /\ (Get(req[r].body.temperature) < 0 \/ Get(req[r].body.temperature) > 10))
        => /\ call[r] = << >>
           /\ pc[r] = "done" => resp[r].status = 422

\* C2: on /analyze, /analyze-image and /analyze-file, a request whose prompt
\* is empty or only whitespace gets no upstream call and ends in HTTP 422,
\* and a prompt that is accepted reaches the upstream call trimmed.
C2_BlankPromptRejected ==
    \A r \in Slots :
        (pc[r] # "idle" /\ ~IsNone(req[r].body.prompt))
        => /\ Blank(Get(req[r].body.prompt))
                => /\ call[r] = << >>
                   /\ pc[r] = "done" => resp[r].status = 422
           /\ call[r] # << >>
                => /\ Trimmed(SentPrompt(req[r].route, call[r][1].args))
                   /\ SentPrompt(req[r].route, call[r][1].args)
                          = Strip(Get(req[r].body.prompt))

\* r is a request to /analyze-file whose parameters passed validation, so
\* that the handler read its buffer
Ingested(r) ==
    /\ Taken(r)
    /\ req[r].route = "/analyze-file"
    /\ resp[r].status # 422

Buffer(r) == Get(req[r].body.file).content
Declared(r) == Get(req[r].body.file).content_type

\* C3: in /analyze-file a buffer longer than 5,242,880 bytes ends in HTTP 413
\* whatever its leading bytes and declared type, the handler having run the
\* size check and nothing after it (no sniffing, no base64, no upstream call);
\* a buffer of 5,242,880 bytes or less is never answered 413.
C3_OversizeIs413 ==
    \A r \in Slots :
        Ingested(r)
        => IF Buffer(r).len > 5242880
           THEN /\ pc[r] = "done"
                /\ resp[r].status = 413
                /\ log[r] = <<"validate", "read", "size">>
                /\ call[r] = << >>
           ELSE /\ resp[r].status # 413
                /\ Len(log[r]) > 3

\* C3 witness: a buffer of 5,242,881 bytes with a JPEG signature, declared
\* text/plain, answered 413.
C3_Witness ==
    /\ Ingested(1)
    /\ Buffer(1) = [head |-> HeadJpeg, len |-> 5242881]
    /\ Declared(1) = Some(<<"t","e","x","t","/","p","l","a","i","n">>)
    /\ resp[1].status = 413

\* The format the leading bytes announce, written out byte by byte: "" if none
Announced(h) ==
    IF Len(h) >= 3 /\ h[1] = 255 /\ h[2] = 216 /\ h[3] = 255 THEN "jpeg"
    ELSE IF /\ Len(h) >= 8
            /\ h[1] = 137 /\ h[2] = 80 /\ h[3] = 78 /\ h[4] = 71
            /\ h[5] = 13 /\ h[6] = 10 /\ h[7] = 26 /\ h[8] = 10 THEN "png"
    ELSE IF /\ Len(h) >= 12
            /\ h[1] = 82 /\ h[2] = 73 /\ h[3] = 70 /\ h[4] = 70
            /\ h[9] = 87 /\ h[10] = 69 /\ h[11] = 66 /\ h[12] = 80 THEN "webp"
    ELSE ""

\* C5: in /analyze-file a buffer (within the size limit) whose leading bytes
\* carry the JPEG, PNG or WEBP signature is accepted whatever type the client
\* declared, and the data URL sent upstream is labelled with the format of
\* the signature.
C5_SignatureFirst ==
    \A r \in Slots :
        (Ingested(r) /\ Buffer(r).len <= 5242880 /\ Announced(Buffer(r).head) # "")
        => /\ Len(call[r]) = 1
           /\ SentImage(call[r][1].args).scheme = "data"
           /\ SentImage(call[r][1].args).type = "image"
           /\ SentImage(call[r][1].args).subtype = Announced(Buffer(r).head)
           /\ SentImage(call[r][1].args).encoding = "base64"

\* C5 witness: PNG magic bytes declared IMAGE/JPEG, sent upstream as image/png.
C5_Witness ==
    /\ Ingested(1)
    /\ Buffer(1).head = HeadPng
    /\ Declared(1) = Some(<<"I","M","A","G","E","/","J","P","E","G">>)
    /\ Len(call[1]) = 1
    /\ SentImage(call[1][1].args).subtype = "png"

\* The format a declared type names, compared without regard to case: "" if none
DeclaredFormat(ct) ==
    IF IsNone(ct) THEN ""
    ELSE IF Lower(Get(ct)) = <<"i","m","a","g","e","/","j","p","e","g">> THEN "jpeg"
    ELSE IF Lower(Get(ct)) = <<"i","m","a","g","e","/","p","n","g">> THEN "png"
    ELSE IF Lower(Get(ct)) = <<"i","m","a","g","e","/","w","e","b","p">> THEN "webp"
    ELSE ""

\* C6: in /analyze-file a buffer (within the size limit) with no signature
\* takes its format from the declared type, matched whole and without regard
\* to case against image/jpeg, image/png, image/webp; when the declared type
\* names none of them (or is absent) the request ends in HTTP 415 right after
\* sniffing, with no base64 encoding and no upstream call.
C6_DeclaredFallback ==
    \A r \in Slots :
        (Ingested(r) /\ Buffer(r).len <= 5242880 /\ Announced(Buffer(r).head) = "")
        => IF DeclaredFormat(Declared(r)) # ""
           THEN /\ Len(call[r]) = 1
                /\ SentImage(call[r][1].args).subtype = DeclaredFormat(Declared(r))
           ELSE /\ pc[r] = "done"
                /\ resp[r].status = 415
                /\ log[r] = <<"validate", "read", "size", "sniff">>
                /\ call[r] = << >>

\* C6 witness: a buffer with no signature declared Image/WebP, sent upstream
\* as image/webp.
C6_Witness ==
    /\ Ingested(1)
    /\ Buffer(1) = [head |-> HeadText, len |-> 12]
    /\ Declared(1) = Some(<<"I","m","a","g","e","/","W","e","b","P">>)
    /\ Len(call[1]) = 1
    /\ SentImage(call[1][1].args).subtype = "webp"

\* The upstream call of r has returned and r carries its response
Called(r) == Answered(r) /\ call[r] # << >>

\* The outcome of the upstream call of r
Outcome(r) == Get(call[r][1].out)

\* The first choice's message content is null or the empty string
NoContent(out) ==
    /\ ~out.raised
    /\ out.value.choices # << >>
    /\ (IsNone(out.value.choices[1]) \/ Get(out.value.choices[1]) = << >>)

\* C4: while a request waits on its upstream call, another request that has
\* arrived can start (the loop can take it) and, once its own call has
\* returned, finish (the loop can send its response).
C4_NoBlocking ==
    \A r \in Slots : \A q \in Slots \ {r} :
        pc[r] = "calling"
        => /\ pc[q] = "pending" => ENABLED Dispatch(q)
           /\ pc[q] = "resume" => ENABLED Respond(q)

\* C7, as claimed: on /analyze, /analyze-image and /analyze-file, the call
\* raising, an empty choices list and a message content that is empty or null
\* each end the request in HTTP 500 with the error's message.
C7_EveryFailureIs500 ==
    \A r \in Slots :
        Called(r)
        => ((Outcome(r).raised \/ Outcome(r).value.choices = << >> \/ NoContent(Outcome(r)))
            => /\ resp[r].status = 500
               /\ resp[r].body.detail # << >>)

\* C7, amended: on all three routes the call raising or an empty choices list
\* ends the request in HTTP 500 with the error's message; on /analyze-image
\* and /analyze-file so does an empty or null message content, and a 200
\* carries the first choice's text unchanged; on /analyze an empty or null
\* content is no failure and ends in 200 with that content as the response.
\* No request ends otherwise than in 200 or 500 once its call was made.
C7_FailuresAre500 ==
    \A r \in Slots :
        Called(r)
        => /\ resp[r].status \in {200, 500}
           /\ Outcome(r).raised
                => /\ resp[r].status = 500
                   /\ resp[r].body.detail = Outcome(r).exc.message
           /\ (~Outcome(r).raised /\ Outcome(r).value.choices = << >>)
                => /\ resp[r].status = 500
                   /\ resp[r].body.detail = <<"list index out of range">>
           /\ (NoContent(Outcome(r)) /\ req[r].route # "/analyze")
                => /\ resp[r].status = 500
                   /\ resp[r].body.detail # << >>
           /\ (NoContent(Outcome(r)) /\ req[r].route = "/analyze")
                => /\ resp[r].status = 200
                   /\ resp[r].body.response = Outcome(r).value.choices[1]
           /\ (resp[r].status = 200 /\ req[r].route # "/analyze")
                => /\ ~Outcome(r).raised
                   /\ Outcome(r).value.choices # << >>
                   /\ Some(resp[r].body.summary) = Outcome(r).value.choices[1]
                   /\ ~Blank(resp[r].body.summary)

\* C7 witness: /analyze-image whose upstream call returns a null message
\* content, answered 500.
C7_Witness ==
    /\ Called(1)
    /\ req[1].route = "/analyze-image"
    /\ NoContent(Outcome(1))
    /\ IsNone(Outcome(1).value.choices[1])
    /\ resp[1].status = 500

\* The model a request resolves to: the one it names, else the route's default
ResolvedModel(rq) ==
    IF ~IsNone(rq.body.model) THEN Get(rq.body.model)
    ELSE IF rq.route = "/analyze-image" THEN "gpt-4o"
    ELSE "gpt-4o-mini"

\* C9: a request answered 200 made exactly one upstream call and its response
\* is that call's result normalized: on /analyze, response is the first
\* choice's text, model the request's model, tokens_used the upstream total or
\* null, latency a string ending in "s"; on /analyze-image and /analyze-file,
\* summary is the first choice's text, entities is empty, text_in_image is
\* null, model_used is the request's model, tokens_used likewise.
C9_NormalizedResult ==
    \A r \in Slots :
        (Answered(r) /\ resp[r].status = 200)
        => /\ Len(call[r]) = 1
           /\ ~Outcome(r).raised
           /\ call[r][1].args.model = ResolvedModel(req[r])
           /\ IF req[r].route = "/analyze"
              THEN /\ resp[r].body.response = Outcome(r).value.choices[1]
                   /\ resp[r].body.model = ResolvedModel(req[r])
                   /\ resp[r].body.tokens_used = Outcome(r).value.usage
                   /\ resp[r].body.latency.suffix = "s"
                   /\ resp[r].body.latency.hundredths >= 0
              ELSE /\ Some(resp[r].body.summary) = Outcome(r).value.choices[1]
                   /\ resp[r].body.entities = << >>
                   /\ resp[r].body.text_in_image = None
                   /\ resp[r].body.model_used = ResolvedModel(req[r])
                   /\ resp[r].body.tokens_used = Outcome(r).value.usage

\* C9 witness: /analyze answered 200 with response "hi there", the request's
\* model and the reported token count, out of a result with a second choice.
C9_Witness ==
    /\ pc[1] = "done"
    /\ req[1].route = "/analyze"
    /\ req[1].body.model = Some("gpt-4-turbo")
    /\ resp[1].status = 200
    /\ Len(Outcome(1).value.choices) = 2
    /\ resp[1].body.response = Some(HiThere)
    /\ resp[1].body.model = "gpt-4-turbo"
    /\ resp[1].body.tokens_used = Some(MaxTokens)

\* An optional string that holds some text (more than whitespace)
HasText(o) == ~IsNone(o) /\ ~Blank(Get(o))

\* C8: with summary a string and the other fields valid, the construction of
\* an ImageInsightResponse succeeds exactly when summary or text_in_image is
\* non-empty.
C8_ConstructionRule ==
    (/\ ~IsNone(probe)
     /\ ~IsNone(Get(probe).result)
     /\ ~IsNone(Get(probe).summary))
    => (~Get(Get(probe).result).raised
        <=> (HasText(Get(probe).summary) \/ HasText(Get(probe).text_in_image)))

=============================================================================
